---- MODULE Spec2Model ----
(***************************************************************************)
(* Electric Field Hockey (src/main.py): the game loop, its event handlers, *)
(* the force model and the kinematic integrator, as a state machine.       *)
(*                                                                         *)
(* Numbers.  Widget geometry and mouse positions are Python ints and are   *)
(* integers (pixels) here.  The positions of charges and the velocity,     *)
(* acceleration and force vectors are Python floats; they are fixed-point  *)
(* integers here, in units of 1/UNIT pixel (per frame, per frame^2).       *)
(* Distances inside the force laws are taken in steps of 10^-5 pixel, and   *)
(* products are divided by doubling (MulDivMod), so that every             *)
(* intermediate value fits TLC's 32-bit integers; quotients are truncated  *)
(* toward zero where Python rounds to the nearest double.                  *)
(***************************************************************************)
EXTENDS Integers, Sequences, FiniteSets, TLC

VARIABLES
    play,            \* main.py:340  home screen (FALSE) or game screen (TRUE)
    run,             \* main.py:341  the simulation is running
    charges,         \* main.py:342  list of StationaryCharge objects
    primary_charge,  \* main.py:343  the DynamicCharge
    active_level,    \* main.py:357  index into levels
    level_slider,    \* main.py:335
    mass_slider,     \* main.py:336
    charge_slider,   \* main.py:337
    pc,              \* position in the game loop: "top", "home_events",
                     \* "play_events", "exit" (pygame.quit/exit), "crashed"
                     \* (uncaught ZeroDivisionError)
                     \* (g_force and e_force, main.py:345-346, are written and
                     \* read inside one frame only: see TotalForce)
    moves,           \* history: calls of move since the last reset
    nev              \* history: mouse events handled so far (counted in Spec)

vars == <<play, run, charges, primary_charge, active_level,
          level_slider, mass_slider, charge_slider, pc, moves, nev>>

(* ------------------------------- bounds -------------------------------- *)
\* mouse events handled in one behaviour of Spec
MaxEvents == 4
\* stationary charges in the list
MaxCharges == 2
\* calls of move between two resets in Spec
MaxMoves == 4
\* stationary charges in the list in SpecRun
MaxRunCharges == 1
\* calls of move between two resets in SpecRun
MaxRunMoves == 250
\* pixels around the screen inside which the particle is followed
FieldMargin == 100

(* ------------------------------ arithmetic ----------------------------- *)
\* fixed-point resolution of a float: units per pixel
UNIT == 10 ^ 6
\* units per step of a distance: a step is 10 ^ -5 pixel
FINE == UNIT \div (10 ^ 5)

\* F(x), with x evaluated once however often F uses it
Once(x, F(_)) == CHOOSE y \in {F(v) : v \in {x}} : TRUE

Abs(x) == IF x < 0 THEN -x ELSE x

Max(a, b) == IF a >= b THEN a ELSE b

\* a / b for a float a and a positive b, truncated toward zero
TruncDiv(a, b) == IF a >= 0 THEN a \div b ELSE -((-a) \div b)

\* a pixel position (event.pos, an int pair) as a float vector
Micro(pos) == <<pos[1] * UNIT, pos[2] * UNIT>>

\* Python's round() of the quotient n / d (n >= 0, d > 0): to nearest, ties to even
RoundHalfEven(n, d) ==
    LET q == n \div d
        r == n % d
    IN  IF 2 * r < d THEN q
        ELSE IF 2 * r > d THEN q + 1
        ELSE IF q % 2 = 0 THEN q ELSE q + 1

(* ------------------------------- widgets ------------------------------- *)
SCREEN_SIZE == <<1200, 600>>

Obstacle(x, y, w, h) == [position |-> <<x, y>>, dimensions |-> <<w, h>>]

\* Button(text, x, y, color): the width is 25 pixels per character of text
Button(textlen, x, y) == Obstacle(x, y, textlen * 25, 50)

Button_detect_click(b, click_position) ==
    /\ b.position[1] <= click_position[1]
    /\ click_position[1] <= b.position[1] + b.dimensions[1]
    /\ b.position[2] <= click_position[2]
    /\ click_position[2] <= b.position[2] + b.dimensions[2]

\* Slider(label, position, domain, width = 100); domain is range(start, stop)
Slider(position, start, stop) ==
    [position |-> position, width |-> 100, current_position |-> position[1],
     start |-> start, stop |-> stop, clicked |-> FALSE, radius |-> 10]

get_val(s) ==
    RoundHalfEven((s.stop - s.start) * (s.current_position - s.position[1]), s.width)
        + s.start

Slider_detect_click(s, click_position) ==
    /\ s.current_position - s.radius <= click_position[1]
    /\ click_position[1] <= s.current_position + s.radius
    /\ s.position[2] - s.radius <= click_position[2]
    /\ click_position[2] <= s.position[2] + s.radius

\* mutant of SliderMotion: the range check on event.pos[0] is missing
SliderMotion_NoRangeCheck(s, pos) ==
    IF s.clicked THEN [s EXCEPT !.current_position = pos[1]] ELSE s

\* the MOUSEMOTION update of one slider (main.py:392-393, 476-479)
SliderMotion(s, pos) ==
    IF s.clicked /\ s.position[1] <= pos[1] /\ pos[1] <= s.position[1] + s.width
    THEN [s EXCEPT !.current_position = pos[1]]
    ELSE s

play_button == Button(4, SCREEN_SIZE[1] \div 2 - 70, 300)
quit_button == Button(4, SCREEN_SIZE[1] \div 2 - 70, 500)
add_positive_charges == Button(1, 50, SCREEN_SIZE[2] + 50)
add_negative_charge == Button(1, 100, SCREEN_SIZE[2] + 50)
run_button == Button(3, 650, SCREEN_SIZE[2] + 50)
reset_button == Button(5, 750, SCREEN_SIZE[2] + 50)
home_button == Button(4, 1050, SCREEN_SIZE[2] + 50)
clear_button == Button(5, 900, SCREEN_SIZE[2] + 50)

goal == Obstacle(SCREEN_SIZE[1] - 50, SCREEN_SIZE[2] \div 2 - 30, 20, 60)

\* levels[active_level + 1] is Python's levels[active_level]
levels ==
    << <<>>,
       << Obstacle(300, SCREEN_SIZE[2] \div 2 - 75, 20, 150) >>,
       << Obstacle(SCREEN_SIZE[1] \div 3, SCREEN_SIZE[2] \div 4 - 75, 20, 150),
          Obstacle((2 * SCREEN_SIZE[1]) \div 3, SCREEN_SIZE[2] \div 2 - 75, 20, 150) >>,
       << Obstacle(SCREEN_SIZE[1] \div 5, SCREEN_SIZE[2] \div 3, 20,
                   (2 * SCREEN_SIZE[2]) \div 3),
          Obstacle((3 * SCREEN_SIZE[1]) \div 7, 0, 20, SCREEN_SIZE[2] \div 2),
          Obstacle((3 * SCREEN_SIZE[1]) \div 4, SCREEN_SIZE[2] \div 3, 20,
                   (2 * SCREEN_SIZE[2]) \div 3) >> >>

(* ------------------------------- charges ------------------------------- *)
StationaryCharge(charge_val, position) ==
    [position |-> position, charge |-> charge_val, mass |-> 1, radius |-> 10,
     clicked |-> TRUE]

StationaryCharge_detect_click(c, click_position) ==
    /\ c.position[1] - c.radius * UNIT <= click_position[1] * UNIT
    /\ click_position[1] * UNIT <= c.position[1] + c.radius * UNIT
    /\ c.position[2] - c.radius * UNIT <= click_position[2] * UNIT
    /\ click_position[2] * UNIT <= c.position[2] + c.radius * UNIT

\* the launch point, [50, SCREEN_SIZE[1] // 2]
LaunchPoint == Micro(<<50, SCREEN_SIZE[2] \div 2>>)

DynamicCharge ==
    [position |-> LaunchPoint, charge |-> 1, mass |-> 1, radius |-> 10,
     clicked |-> TRUE, velocity |-> <<0, 0>>, acceleration |-> <<0, 0>>]

\* mutant of move: the velocity is advanced before the position
move_VelocityFirst(p, force) ==
    [p EXCEPT !.position = <<p.position[1] + p.velocity[1] + p.acceleration[1],
                             p.position[2] + p.velocity[2] + p.acceleration[2]>>,
              !.velocity = <<p.velocity[1] + p.acceleration[1],
                             p.velocity[2] + p.acceleration[2]>>,
              !.acceleration = <<TruncDiv(force[1], p.mass),
                                 TruncDiv(force[2], p.mass)>>]

move(p, force) ==
    [p EXCEPT !.position = <<p.position[1] + p.velocity[1],
                             p.position[2] + p.velocity[2]>>,
              !.velocity = <<p.velocity[1] + p.acceleration[1],
                             p.velocity[2] + p.acceleration[2]>>,
              !.acceleration = <<TruncDiv(force[1], p.mass),
                                 TruncDiv(force[2], p.mass)>>]

detect_collision(p, obstacle) ==
    /\ p.position[1] + p.radius * UNIT >= obstacle.position[1] * UNIT
    /\ p.position[1] - p.radius * UNIT
          <= (obstacle.position[1] + obstacle.dimensions[1]) * UNIT
    /\ p.position[2] + p.radius * UNIT >= obstacle.position[2] * UNIT
    /\ p.position[2] - p.radius * UNIT
          <= (obstacle.position[2] + obstacle.dimensions[2]) * UNIT

reset(p) ==
    [p EXCEPT !.position = LaunchPoint, !.velocity = <<0, 0>>,
              !.acceleration = <<0, 0>>]

(* ------------------------------ geometry ------------------------------- *)
\* one base-4 digit of a long multiplication: from <<quotient, remainder>> of
\* a * n by d to that of a * (4 * n + digit) by d
Step4(qr, digit, a, d) ==
    Once(<<4 * qr[1] + digit * (a \div d), 4 * qr[2] + digit * (a % d)>>,
         LAMBDA t : <<t[1] + (t[2] \div d), t[2] % d>>)

\* <<quotient, remainder>> of a * c by d, three base-4 digits of c at a time
RECURSIVE MulDivRec(_, _, _)
MulDivRec(a, c, d) ==
    IF c = 0 THEN <<0, 0>>
    ELSE Step4(Step4(Step4(MulDivRec(a, c \div 64, d),
                           (c \div 16) % 4, a, d),
                     (c \div 4) % 4, a, d),
               c % 4, a, d)

\* <<quotient, remainder>> of a * c by d, for a, c >= 0 and 0 < d < 2^31 / 7:
\* the product of two floats divided by a third, with no intermediate value
\* outside the 32-bit range
MulDivMod(a, c, d) ==
    Once(<<a, c, d>>,
         LAMBDA t : IF t[1] < t[2] THEN MulDivRec(t[2], t[1], t[3])
                    ELSE MulDivRec(t[1], t[2], t[3]))

\* Newton's step for the square root of dx ** 2 + dy ** 2 from h:
\* (h + (dx ** 2 + dy ** 2) / h) / 2
NewtonStep(dx, dy, h) ==
    Once(<<MulDivMod(dx, dx, h), MulDivMod(dy, dy, h)>>,
         LAMBDA t : (h + t[1][1] + t[2][1] + ((t[1][2] + t[2][2]) \div h)) \div 2)

\* floor of (dx ** 2 + dy ** 2) ** 0.5 for dx, dy >= 0 not both 0, by Newton's
\* iteration from h >= the root
RECURSIVE NewtonHyp(_, _, _)
NewtonHyp(dx, dy, h) ==
    Once(NewtonStep(dx, dy, h),
         LAMBDA n : IF n >= h THEN h ELSE NewtonHyp(dx, dy, n))

\* (a ** 2 + b ** 2) ** 0.5 for legs a, b >= 0, floored
Hypotenuse(a, b) ==
    IF a = 0 THEN b ELSE IF b = 0 THEN a ELSE NewtonHyp(a, b, a + b)

\* hyp_calc: the distance between two points, in steps of `step` units
hyp_calc(vector1, vector2, step) ==
    Hypotenuse(Abs(vector1[1] - vector2[1]) \div step,
               Abs(vector1[2] - vector2[2]) \div step)

\* hyp_calc(vector1, vector2) is 0.0, so angle_calc raises ZeroDivisionError
ZeroDistance(vector1, vector2) == vector1 = vector2

\* the size the longer leg of an angle's triangle is brought to, so that the
\* ratios leg / hyp carry eight digits whatever the distance of the points
TriangleScale == 10 ^ 8

\* <<abs(dx), dy>> of two points, as multiples of one length: enlarged by a
\* whole factor while the longer leg is below TriangleScale units, in steps of
\* FINE units beyond
TriangleLegs(vector1, vector2) ==
    Once(<<vector1[1] - vector2[1], vector1[2] - vector2[2]>>,
         LAMBDA t : Once(Max(Abs(t[1]), Abs(t[2])),
         LAMBDA longer :
             IF longer = 0 THEN <<0, 0>>
             ELSE IF longer <= TriangleScale
             THEN <<Abs(t[1]) * (TriangleScale \div longer),
                    t[2] * (TriangleScale \div longer)>>
             ELSE <<Abs(t[1]) \div FINE, TruncDiv(t[2], FINE)>>))

\* angle_calc: asin((vector1[1] - vector2[1]) / hyp_calc(vector1, vector2)), kept
\* as the right triangle that defines the angle: sin = opp / hyp and
\* cos = adj / hyp >= 0 (asin ranges over [-pi/2, pi/2]).  Defined for
\* vector1 # vector2 only.
angle_calc(vector1, vector2) ==
    Once(TriangleLegs(vector1, vector2),
         LAMBDA t : [opp |-> t[2], adj |-> t[1],
                     hyp |-> Hypotenuse(t[1], Abs(t[2]))])

\* abs(math.cos(angle) * magnitude)
AbsCosTimes(angle, magnitude) == MulDivMod(magnitude, angle.adj, angle.hyp)[1]

\* abs(math.sin(angle) * magnitude)
AbsSinTimes(angle, magnitude) == MulDivMod(magnitude, Abs(angle.opp), angle.hyp)[1]

(* ----------------------------- force model ----------------------------- *)
\* the force c / distance ** 2 in units, for a distance of d steps of FINE
\* units: floor of (c * ForceScale ** 2) / d ** 2 with
\* ForceScale ** 2 = UNIT * (UNIT / FINE) ** 2, by two divisions by d
ForceScale == 10 ^ 8

\* floor of (c * s * s) / (d * d): with c * s = q1 * d + r1, the floor of
\* (q1 * s) / d + ((r1 * s) / d) / d
InverseSquare(c, s, d) ==
    Once(<<c, d>>,
         LAMBDA a : Once(MulDivMod(s, a[1], a[2]),
         LAMBDA m : Once(<<MulDivMod(m[1], s, a[2]), MulDivMod(m[2], s, a[2])>>,
         LAMBDA t : t[1][1] + ((t[1][2] + t[2][1]) \div a[2]))))

\* the distance a force law divides by the square of, in steps of FINE units:
\* distance, or proximity * particle1.radius when distance is below that
ClampedDistance(particle1, particle2) ==
    LET proximity == 4
        clamp == proximity * particle1.radius * (UNIT \div FINE)
    IN  Once(hyp_calc(particle1.position, particle2.position, FINE),
             LAMBDA distance : IF distance < clamp THEN clamp ELSE distance)

\* magnitude in force units: charge_squared / distance ** 2, the product
\* formed before the division as in the code; k = 20
electrostatic_force_calc(particle1, particle2) ==
    LET k == 20
        charge_squared == k * Abs(particle1.charge) * Abs(particle2.charge)
    IN  InverseSquare(charge_squared, ForceScale, ClampedDistance(particle1, particle2))

\* magnitude in force units: mass_squared / distance ** 2, the product formed
\* before the division as in the code; g = 0.02 = 2 / 10 ** 2, the 10 ** 2
\* taken out of ForceScale ** 2
gravitational_force_calc(particle1, particle2) ==
    LET mass_squared_x100 == 2 * particle1.mass * particle2.mass
    IN  InverseSquare(mass_squared_x100, ForceScale \div 10,
                      ClampedDistance(particle1, particle2))

\* mutant of Attraction: electrostatic attraction between like signs
Attraction_LikeSigns(force_type, p, charge) ==
    IF force_type = "gravitational" THEN TRUE
    ELSE (\/ p.charge > 0 /\ charge.charge > 0
          \/ p.charge < 0 /\ charge.charge < 0)

\* main.py:286
Attraction(force_type, p, charge) ==
    IF force_type = "gravitational" THEN TRUE
    ELSE ~ (\/ p.charge > 0 /\ charge.charge > 0
            \/ p.charge < 0 /\ charge.charge < 0)

\* <<abs(math.cos(angle) * magnitude), abs(math.sin(angle) * magnitude)>> for
\* the angle and the magnitude of one stationary charge (main.py:278-285)
Components(force_type, p, charge) ==
    Once([angle |-> angle_calc(p.position, charge.position),
          magnitude |-> IF force_type = "gravitational"
                        THEN gravitational_force_calc(p, charge)
                        ELSE electrostatic_force_calc(p, charge)],
         LAMBDA t : <<AbsCosTimes(t.angle, t.magnitude),
                      AbsSinTimes(t.angle, t.magnitude)>>)

\* mutant of Contribution: the x comparison of the attraction branch is the
\* other way round (< for >)
Contribution_XCompare(force_type, p, charge) ==
    Once(Components(force_type, p, charge), LAMBDA c :
        IF force_type = "gravitational"
           \/ ~ (\/ p.charge > 0 /\ charge.charge > 0
                 \/ p.charge < 0 /\ charge.charge < 0)
        THEN << IF p.position[1] < charge.position[1] THEN -c[1] ELSE c[1],
                IF p.position[2] > charge.position[2] THEN -c[2] ELSE c[2] >>
        ELSE << IF p.position[1] > charge.position[1] THEN c[1] ELSE -c[1],
                IF p.position[2] > charge.position[2] THEN c[2] ELSE -c[2] >>)

\* the contribution of one stationary charge to total (main.py:278-313)
Contribution(force_type, p, charge) ==
    Once(Components(force_type, p, charge), LAMBDA c :
        IF Attraction(force_type, p, charge)
        THEN << IF p.position[1] > charge.position[1] THEN -c[1] ELSE c[1],
                IF p.position[2] > charge.position[2] THEN -c[2] ELSE c[2] >>
        ELSE << IF p.position[1] > charge.position[1] THEN c[1] ELSE -c[1],
                IF p.position[2] > charge.position[2] THEN c[2] ELSE -c[2] >>)

RECURSIVE SumContributions(_, _, _, _)
SumContributions(force_type, p, list, i) ==
    IF i > Len(list) THEN <<0, 0>>
    ELSE Once(<<Contribution(force_type, p, list[i]),
                SumContributions(force_type, p, list, i + 1)>>,
              LAMBDA t : <<t[1][1] + t[2][1], t[1][2] + t[2][2]>>)

\* net_force_calc(force_type) on primary_charge p and the list of charges;
\* defined when no charge of the list is at p's position
net_force_calc(force_type, p, list) == SumContributions(force_type, p, list, 1)

\* some angle_calc call of net_force_calc divides by zero
DividesByZero(p, list) ==
    \E i \in 1..Len(list) : ZeroDistance(p.position, list[i].position)

(* ------------------------------ game loop ------------------------------ *)
Init ==
    /\ play = FALSE
    /\ run = FALSE
    /\ charges = <<>>
    /\ primary_charge = DynamicCharge
    /\ active_level = 0
    /\ level_slider = Slider(<<SCREEN_SIZE[1] \div 2 - 75, 200>>, 0, 3)
    /\ mass_slider = Slider(<<315, SCREEN_SIZE[2] + 50>>, 1, 100)
    /\ charge_slider = Slider(<<500, SCREEN_SIZE[2] + 50>>, -25, 25)
    /\ pc = "top"
    /\ moves = 0
    /\ nev = 0

\* an event is taken from the queue; Spec counts the events it handles and
\* stops at MaxEvents, SpecRun (whose state space the run length bounds) does not
Spend(counted) ==
    IF counted THEN nev < MaxEvents /\ nev' = nev + 1 ELSE nev' = nev

\* what the handlers can change; an event that changes none of it is not counted
Program == <<play, run, charges, primary_charge, active_level,
             level_slider, mass_slider, charge_slider>>

\* the particle is inside the part of the plane the model follows
InWindow(p) ==
    /\ p.position[1] >= -(FieldMargin * UNIT)
    /\ p.position[1] <= (SCREEN_SIZE[1] + FieldMargin) * UNIT
    /\ p.position[2] >= -(FieldMargin * UNIT)
    /\ p.position[2] <= (SCREEN_SIZE[2] + FieldMargin) * UNIT

\* mutant of ObstacleCheck: the obstacles of every level are tested, not only
\* those of the active level
ObstacleCheck_AllLevels(p, level, r) ==
    IF \E l \in 1..Len(levels) : \E i \in 1..Len(levels[l]) :
          detect_collision(p, levels[l][i])
    THEN FALSE ELSE r

\* mutant of ObstacleCheck: the obstacles are tested only while the simulation
\* is stopped (as the CRASHED! banner of main.py:426-428 is)
ObstacleCheck_StoppedOnly(p, level, r) ==
    IF ~ r /\ \E i \in 1..Len(levels[level + 1]) :
                 detect_collision(p, levels[level + 1][i])
    THEN FALSE ELSE r

\* main.py:410-413: a collision with an obstacle of the level clears run
ObstacleCheck(p, level, r) ==
    IF \E i \in 1..Len(levels[level + 1]) : detect_collision(p, levels[level + 1][i])
    THEN FALSE ELSE r

\* main.py:418
Removable(charge) ==
    charge.position[2] > SCREEN_SIZE[2] * UNIT /\ ~ charge.clicked

RemoveAt(list, i) == SubSeq(list, 1, i - 1) \o SubSeq(list, i + 1, Len(list))

\* main.py:416-419: the for loop reads list[i] for i = 0, 1, ... while i is
\* less than the current length, and remove() shortens the list under it
RECURSIVE ChargePassFrom(_, _)
ChargePassFrom(list, i) ==
    IF i > Len(list) THEN list
    ELSE IF Removable(list[i]) THEN ChargePassFrom(RemoveAt(list, i), i + 1)
    ELSE ChargePassFrom(list, i + 1)

ChargePass(list) == ChargePassFrom(list, 1)

\* main.py:433-434
CopySliders(p, ms, cs) == [p EXCEPT !.mass = get_val(ms), !.charge = get_val(cs)]

\* mutant of GoalCheck: the goal is tested only while the simulation is stopped
\* (as the GOAL! banner of main.py:429 is)
GoalCheck_StoppedOnly(p, r) == IF ~ r /\ detect_collision(p, goal) THEN FALSE ELSE r

\* main.py:436-437
GoalCheck(p, r) == IF detect_collision(p, goal) THEN FALSE ELSE r

\* main.py:422-424: g_force and e_force (temporaries of the frame) and their sum
TotalForce(p, list) ==
    Once([g_force |-> net_force_calc("gravitational", p, list),
          e_force |-> net_force_calc("electrostatic", p, list)],
         LAMBDA f : <<f.g_force[1] + f.e_force[1], f.g_force[2] + f.e_force[2]>>)

\* main.py:366-374: the home screen's frame up to its event loop
HomeFrame ==
    /\ pc = "top"
    /\ ~ play
    /\ pc' = "home_events"
    /\ UNCHANGED <<play, run, charges, primary_charge,
                   active_level, level_slider, mass_slider, charge_slider,
                   moves, nev>>

\* main.py:396-437: the game screen's frame up to its event loop
PlayFrame(cap) ==
    /\ pc = "top"
    /\ play
    /\ LET run1 == ObstacleCheck(primary_charge, active_level, run)
           charges1 == ChargePass(charges)
       IN  /\ run1 => (moves < cap /\ InWindow(primary_charge))
           /\ charges' = charges1
           /\ IF run1 /\ DividesByZero(primary_charge, charges1)
              THEN /\ pc' = "crashed"
                   /\ run' = run1
                   /\ UNCHANGED <<primary_charge, moves>>
              ELSE LET moved == IF run1
                                THEN Once(TotalForce(primary_charge, charges1),
                                          LAMBDA force : move(primary_charge, force))
                                ELSE primary_charge
                       copied == CopySliders(moved, mass_slider, charge_slider)
                   IN  /\ primary_charge' = copied
                       /\ run' = GoalCheck(primary_charge', run1)
                       /\ moves' = IF run1 THEN moves + 1 ELSE moves
                       /\ pc' = "play_events"
    /\ UNCHANGED <<play, active_level, level_slider, mass_slider, charge_slider, nev>>

\* main.py:380-388: MOUSEBUTTONDOWN, button 1, on the home screen
HomeMouseDown(pos, counted) ==
    /\ pc = "home_events"
    /\ Spend(counted)
    /\ IF Button_detect_click(play_button, pos)
       THEN /\ active_level' = get_val(level_slider)
            /\ play' = TRUE
            /\ UNCHANGED <<level_slider, pc>>
       ELSE IF Button_detect_click(quit_button, pos)
       THEN /\ pc' = "exit"
            /\ UNCHANGED <<active_level, play, level_slider>>
       ELSE /\ Slider_detect_click(level_slider, pos)
            /\ level_slider' = [level_slider EXCEPT !.clicked = TRUE]
            /\ UNCHANGED <<active_level, play, pc>>
    /\ UNCHANGED <<run, charges, primary_charge,
                   mass_slider, charge_slider, moves>>
    /\ pc' = "exit" \/ Program' # Program

\* main.py:389-390
HomeMouseUp(counted) ==
    /\ pc = "home_events"
    /\ Spend(counted)
    /\ level_slider.clicked
    /\ level_slider' = [level_slider EXCEPT !.clicked = FALSE]
    /\ UNCHANGED <<play, run, charges, primary_charge,
                   active_level, mass_slider, charge_slider, pc, moves>>

\* main.py:391-393
HomeMouseMotion(pos, counted) ==
    /\ pc = "home_events"
    /\ Spend(counted)
    /\ level_slider' = SliderMotion(level_slider, pos)
    /\ level_slider' # level_slider
    /\ UNCHANGED <<play, run, charges, primary_charge,
                   active_level, mass_slider, charge_slider, pc, moves>>

\* main.py:444-466: MOUSEBUTTONDOWN, button 1, on the game screen
PlayMouseDown(pos, counted, maxcharges) ==
    /\ pc = "play_events"
    /\ Spend(counted)
    /\ LET c1 == [i \in 1..Len(charges) |->
                     IF StationaryCharge_detect_click(charges[i], pos)
                     THEN [charges[i] EXCEPT !.clicked = TRUE] ELSE charges[i]]
           c2 == IF Button_detect_click(add_positive_charges, pos)
                 THEN Append(c1, StationaryCharge(1, Micro(pos))) ELSE c1
           c3 == IF Button_detect_click(add_negative_charge, pos)
                 THEN Append(c2, StationaryCharge(-1, Micro(pos))) ELSE c2
           r1 == IF Button_detect_click(run_button, pos) THEN TRUE ELSE run
           home == Button_detect_click(home_button, pos)
           rst == Button_detect_click(reset_button, pos)
           p1 == IF home THEN reset(primary_charge) ELSE primary_charge
           r2 == IF home THEN FALSE ELSE r1
           p2 == IF rst THEN reset(p1) ELSE p1
           r3 == IF rst THEN FALSE ELSE r2
       IN  /\ Len(c3) <= maxcharges
           /\ charges' = IF Button_detect_click(clear_button, pos) THEN <<>> ELSE c3
           /\ mass_slider' = IF Slider_detect_click(mass_slider, pos)
                             THEN [mass_slider EXCEPT !.clicked = TRUE]
                             ELSE mass_slider
           /\ charge_slider' = IF Slider_detect_click(charge_slider, pos)
                               THEN [charge_slider EXCEPT !.clicked = TRUE]
                               ELSE charge_slider
           /\ primary_charge' = p2
           /\ run' = r3
           /\ play' = IF home THEN FALSE ELSE play
           /\ moves' = IF home \/ rst THEN 0 ELSE moves
    /\ UNCHANGED <<active_level, level_slider, pc>>
    /\ Program' # Program

\* main.py:467-471
PlayMouseUp(counted) ==
    /\ pc = "play_events"
    /\ Spend(counted)
    /\ charges' = [i \in 1..Len(charges) |-> [charges[i] EXCEPT !.clicked = FALSE]]
    /\ mass_slider' = [mass_slider EXCEPT !.clicked = FALSE]
    /\ charge_slider' = [charge_slider EXCEPT !.clicked = FALSE]
    /\ UNCHANGED <<play, run, primary_charge, active_level,
                   level_slider, pc, moves>>
    /\ Program' # Program

\* main.py:472-479
PlayMouseMotion(pos, counted) ==
    /\ pc = "play_events"
    /\ Spend(counted)
    /\ charges' = [i \in 1..Len(charges) |->
                      IF charges[i].clicked
                      THEN [charges[i] EXCEPT !.position = Micro(pos)]
                      ELSE charges[i]]
    /\ mass_slider' = SliderMotion(mass_slider, pos)
    /\ charge_slider' = SliderMotion(charge_slider, pos)
    /\ UNCHANGED <<play, run, primary_charge, active_level,
                   level_slider, pc, moves>>
    /\ Program' # Program

\* main.py:377-379, 441-443: a QUIT event ends the process
Quit(counted) ==
    /\ pc \in {"home_events", "play_events"}
    /\ Spend(counted)
    /\ pc' = "exit"
    /\ UNCHANGED <<play, run, charges, primary_charge,
                   active_level, level_slider, mass_slider, charge_slider, moves>>

\* pygame.event.get() has no further event: the frame ends (main.py:481)
EndBatch ==
    /\ pc \in {"home_events", "play_events"}
    /\ pc' = "top"
    /\ UNCHANGED <<play, run, charges, primary_charge,
                   active_level, level_slider, mass_slider, charge_slider,
                   moves, nev>>

(* ------------------------------- inputs -------------------------------- *)
\* a point on the knob of a slider, wherever the knob is
Knob(s) == <<s.current_position, s.position[2]>>

\* points of the play field: the launch point, one directly ahead of it, and
\* one behind and above it
FieldPoints == {<<50, 300>>, <<130, 300>>, <<20, 260>>}

\* points on the buttons of the game screen
PlayButtonPoints ==
    {<<60, 660>>, <<110, 660>>, <<660, 660>>, <<760, 660>>, <<910, 660>>,
     <<1060, 660>>}

\* x in the mass track (mass 51, by a tie), x in the charge track and the level
\* track (charge 13 and level 2, by ties), and x outside every track; all of
\* them below the play field
SliderPoints == {<<365, 650>>, <<575, 650>>, <<430, 650>>}

HomeDownPoints == {<<540, 310>>, <<540, 510>>, Knob(level_slider)}

HomeMotionPoints == SliderPoints

PlayDownPoints ==
    PlayButtonPoints \cup FieldPoints \cup {Knob(mass_slider), Knob(charge_slider)}

PlayMotionPoints == FieldPoints \cup SliderPoints

Next ==
    \/ HomeFrame
    \/ PlayFrame(MaxMoves)
    \/ \E pos \in HomeDownPoints : HomeMouseDown(pos, TRUE)
    \/ HomeMouseUp(TRUE)
    \/ \E pos \in HomeMotionPoints : HomeMouseMotion(pos, TRUE)
    \/ \E pos \in PlayDownPoints : PlayMouseDown(pos, TRUE, MaxCharges)
    \/ PlayMouseUp(TRUE)
    \/ \E pos \in PlayMotionPoints : PlayMouseMotion(pos, TRUE)
    \/ Quit(TRUE)
    \/ EndBatch

Spec == Init /\ [][Next]_vars

(* --------------------------- runs to the end --------------------------- *)
\* SpecRun follows whole runs of the simulation: the user chooses a level,
\* places charges on the particle's line of flight and starts the run; while
\* it runs only the reset and home buttons are used.
RunHomeDownPoints == {<<540, 310>>, Knob(level_slider)}

RunHomeMotionPoints == {<<575, 200>>}

\* the buttons +, - and run
RunSetupPoints == {<<60, 660>>, <<110, 660>>, <<660, 660>>}

\* the buttons reset and home
RunStopPoints == {<<760, 660>>, <<1060, 660>>}

\* just behind the launch point and directly ahead of it
RunFieldPoints == {<<45, 300>>, <<130, 300>>}

NextRun ==
    \/ HomeFrame
    \/ PlayFrame(MaxRunMoves)
    \/ \E pos \in RunHomeDownPoints : HomeMouseDown(pos, FALSE)
    \/ \E pos \in RunHomeMotionPoints : HomeMouseMotion(pos, FALSE)
    \/ \E pos \in RunSetupPoints : ~ run /\ PlayMouseDown(pos, FALSE, MaxRunCharges)
    \/ \E pos \in RunStopPoints : PlayMouseDown(pos, FALSE, MaxRunCharges)
    \/ \E pos \in RunFieldPoints : ~ run /\ PlayMouseMotion(pos, FALSE)
    \/ EndBatch

SpecRun == Init /\ [][NextRun]_vars

(* ------------------------- the force law alone ------------------------- *)
\* SpecForce applies one running frame to a particle and a single stationary
\* charge, for every combination of the inputs below.
ForceParticleX == {50, 90, 130, 400}
ForceParticleY == {260, 300, 340}
ForceChargePoints == {<<50, 300>>, <<130, 300>>, <<90, 260>>}
\* knob positions for the charges -25, -1, 0, 1, 13, 25
ForceChargeKnobs == {500, 549, 550, 551, 575, 600}
\* knob positions for the masses 1, 51, 100
ForceMassKnobs == {315, 365, 415}

InitForce ==
    /\ play = TRUE
    /\ run = TRUE
    /\ \E pos \in ForceChargePoints, sign \in {-1, 1} :
          charges = << StationaryCharge(sign, Micro(pos)) >>
    /\ active_level = 0
    /\ level_slider = Slider(<<SCREEN_SIZE[1] \div 2 - 75, 200>>, 0, 3)
    /\ \E cp \in ForceMassKnobs :
          mass_slider = [Slider(<<315, SCREEN_SIZE[2] + 50>>, 1, 100)
                            EXCEPT !.current_position = cp]
    /\ \E cp \in ForceChargeKnobs :
          charge_slider = [Slider(<<500, SCREEN_SIZE[2] + 50>>, -25, 25)
                              EXCEPT !.current_position = cp]
    /\ \E x \in ForceParticleX, y \in ForceParticleY :
          primary_charge =
              CopySliders([DynamicCharge EXCEPT !.position = Micro(<<x, y>>)],
                          mass_slider, charge_slider)
    /\ pc = "top"
    /\ moves = 0
    /\ nev = 0

NextForce == PlayFrame(1)

SpecForce == InitForce /\ [][NextForce]_vars

(* ------------------------------ properties ----------------------------- *)
\* a step that is the game screen's frame
PlayFrameStep == pc = "top" /\ play /\ pc' \in {"play_events", "crashed"}

\* a frame that called move
MoveStep == pc = "top" /\ moves' = moves + 1

AtLaunch(p) ==
    p.position = LaunchPoint /\ p.velocity = <<0, 0>> /\ p.acceleration = <<0, 0>>

\* C1 (as claimed): whenever a frame is about to call net_force_calc (the game
\* screen, run still true after the obstacle check), no stationary charge left
\* by the charge pass is at the particle's position, so angle_calc never
\* divides by zero.
C1_NoCoincidentCharge ==
    (pc = "top" /\ play /\ ObstacleCheck(primary_charge, active_level, run))
        => ~ DividesByZero(primary_charge, ChargePass(charges))

\* the click of a step of the game screen's handler hits button b
Clicked(b) ==
    \E pos \in PlayDownPoints \cup RunSetupPoints \cup RunStopPoints :
        /\ Button_detect_click(b, pos)
        /\ \/ PlayMouseDown(pos, TRUE, MaxCharges)
           \/ PlayMouseDown(pos, FALSE, MaxRunCharges)

\* C2: run changes from false to true only in a step that handles a click on
\* the run button, and from true to false only in a frame in which the particle
\* overlaps an obstacle of the active level (at the obstacle check) or the goal
\* (at the goal check), or in a step that handles a click on reset or home;
\* every other step leaves run as it is.
C2_RunChanges ==
    [][ /\ (~ run /\ run') => Clicked(run_button)
        /\ (run /\ ~ run') =>
              \/ /\ PlayFrameStep
                 /\ \/ \E i \in 1..Len(levels[active_level + 1]) :
                          detect_collision(primary_charge, levels[active_level + 1][i])
                    \/ detect_collision(primary_charge', goal)
              \/ Clicked(reset_button)
              \/ Clicked(home_button) ]_vars

\* C2 witness: a run has been stopped by an obstacle of the active level
C2_Witness ==
    /\ pc = "play_events" /\ play /\ ~ run /\ moves > 0
    /\ \E i \in 1..Len(levels[active_level + 1]) :
          detect_collision(primary_charge, levels[active_level + 1][i])

\* C3: a frame of the game screen that starts with run true and ends with the
\* particle overlapping the goal ends with run false.
C3_GoalStopsRun ==
    [][ (PlayFrameStep /\ run /\ pc' = "play_events"
            /\ detect_collision(primary_charge', goal)) => ~ run' ]_vars

\* C3 witness: the particle has flown into the goal and the run has stopped
C3_Witness ==
    /\ pc = "play_events" /\ play /\ ~ run /\ moves > 0
    /\ primary_charge.velocity # <<0, 0>>
    /\ detect_collision(primary_charge, goal)

\* C4 (as claimed): whenever the home screen is active, run is false and the
\* particle is at the launch point with zero velocity and zero acceleration.
C4_HomeIsReset == ~ play => (~ run /\ AtLaunch(primary_charge))

\* C5 (as claimed): the mass and the charge of the particle do not change from
\* one integration step of a run to the next: a frame that calls move and
\* leaves run true leaves them as they were.
C5_FrozenDuringRun ==
    [][ (MoveStep /\ run') =>
            /\ primary_charge'.mass = primary_charge.mass
            /\ primary_charge'.charge = primary_charge.charge ]_vars

\* C6 (as claimed): the charge pass of a frame removes exactly the charges
\* that are below the play field and not held: what it leaves is the list
\* without them, in the same order.
C6_PassRemovesAll ==
    [][ PlayFrameStep =>
            charges' = SelectSeq(charges, LAMBDA c : ~ Removable(c)) ]_vars

\* C7: every slider knob is inside its track, the level value and
\* active_level are in 0..3 (indices of the four levels), the particle's mass
\* is in 1..100 and its charge in -25..25.
C7_SlidersInRange ==
    /\ \A s \in {level_slider, mass_slider, charge_slider} :
          /\ s.position[1] <= s.current_position
          /\ s.current_position <= s.position[1] + s.width
    /\ get_val(level_slider) \in 0..3
    /\ active_level \in 0..3
    /\ active_level + 1 \in 1..Len(levels)
    /\ Len(levels) = 4
    /\ primary_charge.mass \in 1..100
    /\ primary_charge.charge \in -25..25

\* C7 witness: the mass knob was dragged inside its track and its value (51,
\* by a rounding tie) has been copied into the particle
C7_Witness ==
    /\ mass_slider.current_position = 365
    /\ primary_charge.mass = 51
    /\ mass_slider.clicked

\* C8: a call of move sets position to position + velocity, velocity to
\* velocity + acceleration and acceleration to force / mass, all from the
\* values before the call (so zero velocity leaves the position unchanged);
\* and up to two calls after a reset the particle is still at the launch point.
C8_Move ==
    /\ [](moves <= 2 => primary_charge.position = LaunchPoint)
    /\ [][ MoveStep =>
            LET acceleration ==
                    Once(TotalForce(primary_charge, charges'),
                         LAMBDA force : <<TruncDiv(force[1], primary_charge.mass),
                                          TruncDiv(force[2], primary_charge.mass)>>)
            IN  /\ primary_charge'.position =
                      <<primary_charge.position[1] + primary_charge.velocity[1],
                        primary_charge.position[2] + primary_charge.velocity[2]>>
                /\ primary_charge'.velocity =
                      <<primary_charge.velocity[1] + primary_charge.acceleration[1],
                        primary_charge.velocity[2] + primary_charge.acceleration[2]>>
                /\ primary_charge'.acceleration = acceleration
                /\ (primary_charge.velocity = <<0, 0>> =>
                       primary_charge'.position = primary_charge.position) ]_vars

\* C8 witness: two calls of move into a run, under a nonzero force, the
\* particle has a velocity and is still at the launch point
C8_Witness ==
    /\ moves = 2 /\ run
    /\ primary_charge.velocity[1] # 0
    /\ primary_charge.acceleration[1] # 0
    /\ primary_charge.position = LaunchPoint

\* the component f of a force on a particle at coordinate a does not point
\* toward (away from) a charge at coordinate b on that axis
NotToward(f, a, b) == (a > b => f >= 0) /\ (a < b => f <= 0)
NotAway(f, a, b) == (a > b => f <= 0) /\ (a < b => f >= 0)

SameSign(p, charge) ==
    (p.charge > 0 /\ charge.charge > 0) \/ (p.charge < 0 /\ charge.charge < 0)

\* C9: for a particle of nonzero charge and a single stationary charge at
\* another position, each component of the electrostatic net force points away
\* from the charge or is zero when the signs agree and toward it or is zero
\* when they differ; each component of the gravitational net force points
\* toward it or is zero.
C9_ForceDirection ==
    (Len(charges) = 1 /\ primary_charge.charge # 0
        /\ ~ ZeroDistance(primary_charge.position, charges[1].position)) =>
    LET p == primary_charge
        c == charges[1]
    IN  Once(<<net_force_calc("electrostatic", p, charges),
               net_force_calc("gravitational", p, charges)>>,
             LAMBDA f :
                 /\ SameSign(p, c) =>
                       /\ NotToward(f[1][1], p.position[1], c.position[1])
                       /\ NotToward(f[1][2], p.position[2], c.position[2])
                 /\ ~ SameSign(p, c) =>
                       /\ NotAway(f[1][1], p.position[1], c.position[1])
                       /\ NotAway(f[1][2], p.position[2], c.position[2])
                 /\ NotAway(f[2][1], p.position[1], c.position[1])
                 /\ NotAway(f[2][2], p.position[2], c.position[2]))

\* C9 witness: a frame has applied the force of a like-signed charge that is
\* to the right of and below the particle: the particle accelerates to the
\* left and upwards, by the mass 1
C9_Witness ==
    /\ pc = "play_events" /\ moves = 1 /\ Len(charges) = 1
    /\ SameSign(primary_charge, charges[1])
    /\ primary_charge.mass = 1
    /\ primary_charge.position[1] < charges[1].position[1]
    /\ primary_charge.position[2] < charges[1].position[2]
    /\ primary_charge.acceleration[1] < 0
    /\ primary_charge.acceleration[2] < 0

\* the scenario of C10: the only stationary charge is positive and on the
\* particle's horizontal line, the particle's charge is negative
C10_Scenario ==
    /\ play
    /\ Len(charges) = 1
    /\ charges[1].charge = 1
    /\ charges[1].position[2] = primary_charge.position[2]
    /\ primary_charge.charge < 0

\* the particle has not passed the charge and nothing moves or pulls it back;
\* one step into the run it is accelerated, two steps into it it moves
C10_Approaching ==
    /\ C10_Scenario
    /\ primary_charge.position[1] <= charges[1].position[1]
    /\ primary_charge.velocity[1] >= 0
    /\ primary_charge.acceleration[1] >= 0
    /\ moves >= 1 => primary_charge.acceleration[1] > 0
    /\ moves >= 2 => primary_charge.velocity[1] > 0

\* C10 (as claimed): in the scenario, started at the launch point with the
\* charge ahead, the x-position first strictly decreases: the step that takes
\* the particle off the launch point lowers x.
C10_FirstDecreases ==
    [][ (MoveStep /\ C10_Scenario
            /\ primary_charge.position = LaunchPoint
            /\ charges[1].position[1] > primary_charge.position[1]
            /\ primary_charge'.position[1] # primary_charge.position[1])
        => primary_charge'.position[1] < primary_charge.position[1] ]_vars

\* C10 (amended): in the scenario, started at the launch point with the charge
\* ahead, the x-position is unchanged by the first two integration steps and
\* strictly increases at every later step until the particle has passed the
\* charge: at the start of the run the particle is approaching, and a step of
\* an approaching particle leaves x unchanged (first two steps) or raises it
\* (every later step) and leaves the particle approaching unless it has
\* passed the charge.
C10_FirstIncreases ==
    /\ []((C10_Scenario /\ AtLaunch(primary_charge) /\ moves = 0
             /\ charges[1].position[1] > primary_charge.position[1])
          => C10_Approaching)
    /\ [][ (MoveStep /\ C10_Approaching) =>
              /\ moves < 2 => primary_charge'.position[1] = primary_charge.position[1]
              /\ moves >= 2 => primary_charge'.position[1] > primary_charge.position[1]
              /\ primary_charge'.position[1] <= charges'[1].position[1]
                    => C10_Approaching' ]_vars

\* C10 witness: some steps into the run the particle has left the launch
\* point toward the charge and is still short of it
C10_Witness ==
    /\ C10_Approaching /\ run /\ moves >= 3
    /\ primary_charge.position[1] > LaunchPoint[1]
    /\ primary_charge.position[1] < charges[1].position[1]
    /\ primary_charge.velocity[1] > 0

\* position, velocity and acceleration of the particle
Kinematics(p) == <<p.position, p.velocity, p.acceleration>>

\* the particle overlaps an obstacle of the active level
OnObstacle ==
    \E i \in 1..Len(levels[active_level + 1]) :
        detect_collision(primary_charge, levels[active_level + 1][i])

\* C11 (as claimed): once the particle overlaps the goal, move is not called on
\* it again: a frame of the game screen that starts with the particle on the
\* goal does not call move and leaves its position, velocity and acceleration
\* unchanged, also when run has been clicked in between.
C11_GoalStopsMovement ==
    [][ (PlayFrameStep /\ detect_collision(primary_charge, goal)) =>
            /\ moves' = moves
            /\ Kinematics(primary_charge') = Kinematics(primary_charge) ]_vars

\* C12: a frame of the game screen that starts with the particle overlapping
\* an obstacle of the active level ends with run false and does not call move;
\* and while the particle overlaps such an obstacle only a step that handles a
\* click on reset or home changes its position, velocity or acceleration.
C12_CrashedStays ==
    /\ [][ (PlayFrameStep /\ OnObstacle) =>
              /\ ~ run'
              /\ moves' = moves
              /\ Kinematics(primary_charge') = Kinematics(primary_charge) ]_vars
    /\ [][ (OnObstacle /\ Kinematics(primary_charge') # Kinematics(primary_charge)) =>
              \/ Clicked(reset_button)
              \/ Clicked(home_button) ]_vars

\* C12 witness: a frame has found the particle on an obstacle of the active
\* level after at least one call of move: run is false and the particle rests
\* on the obstacle with the velocity it arrived with
C12_Witness ==
    /\ pc = "play_events" /\ play /\ ~ run /\ moves > 0
    /\ OnObstacle
    /\ primary_charge.velocity # <<0, 0>>

====
